---- MODULE Spec2Model ----
(***************************************************************************)
(* MeditationCog (src/meditation/__init__.py): the daily-post scheduler,   *)
(* the logical-day attribution, the streak computation and leaderboard,    *)
(* the record store and the reaction handlers.                             *)
(*                                                                         *)
(* Instants are whole seconds since 00:00:00 UTC of day 0.  A Python       *)
(* Optional value is a sequence: <<>> is None (falsy), <<v>> is the value. *)
(***************************************************************************)
EXTENDS Integers, Sequences, FiniteSets, TLC

(***************************************************************************)
(* Bounds of the model.                                                    *)
(***************************************************************************)
\* Tick instants fall on days 0..MaxDay.
MaxDay == 2
\* An awaited call to the platform (send, add_reaction) takes 0..MaxLatency s.
MaxLatency == 1
\* The periodic specification runs its 60 s ticks for PeriodicDays days.
PeriodicDays == 1
\* Recorded logical days are FirstRecordDay .. FirstRecordDay+RecordDaySpan-1.
FirstRecordDay == 7
RecordDaySpan == 6
\* Instants handed to get_meditation_date lie on days 0..MaxStampDay.
MaxStampDay == 3

(***************************************************************************)
(* Time arithmetic of datetime.                                            *)
(***************************************************************************)
SecondsPerDay == 24 * 60 * 60
\* replace(hour=7, minute=30, second=0, microsecond=0): seconds into the day.
CUTOFF == 7 * 3600 + 30 * 60
\* 23.5 * 60 * 60
MinSpacing == (47 * 60 * 60) \div 2
\* time_since_last < 300
RATE_LIMIT == 300
\* @tasks.loop(minutes=1)
TICK_PERIOD == 60

date(t) == t \div SecondsPerDay
hour(t) == (t % SecondsPerDay) \div 3600
minute(t) == (t % 3600) \div 60
\* now.replace(hour=7, minute=30, second=0, microsecond=0)
target_time(now) == date(now) * SecondsPerDay + CUTOFF

\* datetime.isoformat() / datetime.fromisoformat(): date part and time part.
isoformat(t) == <<date(t), t % SecondsPerDay>>
fromisoformat(s) == s[1] * SecondsPerDay + s[2]

(***************************************************************************)
(* Inputs.                                                                 *)
(***************************************************************************)
\* Times of day at which a tick may read the clock: the second before the
\* cutoff, the cutoff itself (inside the 07:30 minute), the first two instants
\* after it that the rate limit lets through, and an afternoon time.
TimesOfDay ==
    {CUTOFF - 1, CUTOFF, CUTOFF + RATE_LIMIT, CUTOFF + 2 * RATE_LIMIT, 50000}
Instants == {d * SecondsPerDay + s : d \in 0..MaxDay, s \in TimesOfDay}
Latency == 0..MaxLatency
CHANNEL == "channel"
DEFAULT_MESSAGE == "React to this message if you've meditated today"
Messages == {DEFAULT_MESSAGE, "custom"}

VARIABLES
    clock,              \* datetime.datetime.now(pytz.UTC)
    settings,           \* self.settings
    settings_file,      \* settings.json: <<>> when absent, <<contents>> otherwise
    last_post_attempt,  \* self._last_post_attempt
    post_lock,          \* self._post_lock.locked()
    pc,                 \* where the evaluation holding the lock is suspended
    loop_alive,         \* the tasks.loop driver has not been ended by an exception
    ev,                 \* history: the most recent tick of this process
    last_prompt,        \* history: the last prompt emitted by this process
    last_pass,          \* history: `now` of the last tick past the rate limit
    partial,            \* history: a prompt was emitted and its bookkeeping lost
    records,            \* table meditation_records: rows <<user_id, meditation_date>>
    call,               \* history: the last call of a pure function and its result
    prompts,            \* history: prompts emitted since the fresh start: "none", "one", "many"
    skipped,            \* history: a tick found the lock held by the evaluation in progress
    posted,             \* the prompt message on the platform and the markers a user holds on it
    handlers,           \* the reaction handlers in flight, each at its suspension point
    events              \* history: the reactions the user has added or removed so far

\* The state of the platform and of the reaction handlers.
reaction_vars == <<posted, handlers, events>>

vars == <<clock, settings, settings_file, last_post_attempt, post_lock, pc,
          loop_alive, ev, last_prompt, last_pass, partial, records, call,
          prompts, skipped, reaction_vars>>

\* No prompt message is on the platform and no reaction handler is in flight.
NoMessage == [created_at |-> 0, content |-> "", reactions |-> {}]
NoReactions ==
    /\ posted = NoMessage
    /\ handlers = <<>>
    /\ events = 0

(***************************************************************************)
(* Settings store.                                                         *)
(***************************************************************************)
DefaultSettings ==
    [channel_id |-> <<>>, daily_message |-> DEFAULT_MESSAGE,
     last_post_time |-> <<>>, was_first_post |-> FALSE]

load_settings(file) == IF file # <<>> THEN file[1] ELSE DefaultSettings

save_settings(s) == <<s>>

\* The scheduler's state as the two Settings fields encode it.
SchedulerState(s) ==
    IF s.last_post_time = <<>> THEN "Uninitialized"
    ELSE IF s.was_first_post THEN "PostedFirst"
    ELSE "Steady"

\* How the time since last_post_time compares with the two spacings.
Since(s, now) ==
    IF s.last_post_time = <<>> THEN "none"
    ELSE LET d == now - fromisoformat(s.last_post_time) IN
         IF d < MinSpacing THEN "below_min"
         ELSE IF d > SecondsPerDay THEN "over_day"
         ELSE "between"

\* What a tick saw: its `now`, the state and the was_first_post flag it
\* started with, the time since the last post, the branch it took (path) and
\* how its post ended (result).
NoEvent ==
    [now |-> 0, state |-> "none", flag |-> FALSE, since |-> "none",
     path |-> "none", result |-> "none"]

Observe(s, now) ==
    [now |-> now, state |-> SchedulerState(s), flag |-> s.was_first_post,
     since |-> Since(s, now), path |-> "none", result |-> "none"]

NoCall == [op |-> "none", user |-> 0, arg |-> <<>>, result |-> 0]

\* The cutoff cycle [07:30 of day D, 07:30 of day D+1) an instant falls in.
Cycle(t) == (t - CUTOFF) \div SecondsPerDay

(***************************************************************************)
(* should_post: the recovery predicate.  It returns whether to post and    *)
(* the settings as it leaves them (it assigns was_first_post in memory).   *)
(***************************************************************************)
\* Faulty variant of never_posted_case: the flag is not set.
never_posted_case_FlagNotSet(s) == [post |-> TRUE, settings |-> s]

\* if not self.settings['last_post_time']: was_first_post = True; return True
never_posted_case(s) ==
    [post |-> TRUE, settings |-> [s EXCEPT !.was_first_post = TRUE]]

\* Faulty variant of first_post_case: `last_post < target_time` is not checked.
first_post_case_NoLastPostCheck(s, now, last_post, target) ==
    IF now >= target
    THEN [post |-> TRUE, settings |-> [s EXCEPT !.was_first_post = FALSE]]
    ELSE [post |-> FALSE, settings |-> s]

\* Faulty variant of first_post_case: the 23.5 hour spacing of the regular
\* posts is required as well.
first_post_case_MinSpacing(s, now, last_post, target) ==
    IF now - last_post >= MinSpacing /\ now >= target /\ last_post < target
    THEN [post |-> TRUE, settings |-> [s EXCEPT !.was_first_post = FALSE]]
    ELSE [post |-> FALSE, settings |-> s]

\* Special handling for the post after first post.
first_post_case(s, now, last_post, target) ==
    IF now >= target /\ last_post < target
    THEN [post |-> TRUE, settings |-> [s EXCEPT !.was_first_post = FALSE]]
    ELSE [post |-> FALSE, settings |-> s]

\* Faulty variant of regular_case: the 24 hour rule is missing.
regular_case_NoDayRule(s, now, last_post, target) ==
    LET time_since_last_post == now - last_post IN
    IF time_since_last_post < MinSpacing
    THEN [post |-> FALSE, settings |-> s]
    ELSE IF now >= target /\ last_post < target
    THEN [post |-> TRUE, settings |-> s]
    ELSE [post |-> FALSE, settings |-> s]

\* Faulty variant of regular_case: the spacings are compared in hours while
\* time_since_last_post is in seconds.
regular_case_HoursNotSeconds(s, now, last_post, target) ==
    LET time_since_last_post == now - last_post IN
    IF 2 * time_since_last_post < 47
    THEN [post |-> FALSE, settings |-> s]
    ELSE IF now >= target /\ last_post < target
    THEN [post |-> TRUE, settings |-> s]
    ELSE IF time_since_last_post > 24
    THEN [post |-> TRUE, settings |-> s]
    ELSE [post |-> FALSE, settings |-> s]

\* Regular posts.
regular_case(s, now, last_post, target) ==
    LET time_since_last_post == now - last_post IN
    IF time_since_last_post < MinSpacing
    THEN [post |-> FALSE, settings |-> s]
    ELSE IF now >= target /\ last_post < target
    THEN [post |-> TRUE, settings |-> s]
    ELSE IF time_since_last_post > SecondsPerDay
    THEN [post |-> TRUE, settings |-> s]
    ELSE [post |-> FALSE, settings |-> s]

should_post(s, now) ==
    LET target == target_time(now) IN
    IF s.last_post_time = <<>>
    THEN never_posted_case(s)
    ELSE
      LET last_post == fromisoformat(s.last_post_time) IN
      IF s.was_first_post
      THEN first_post_case(s, now, last_post, target)
      ELSE regular_case(s, now, last_post, target)

\* now.hour == target_time.hour and now.minute == target_time.minute
exact_minute(now) ==
    hour(now) = hour(target_time(now)) /\ minute(now) = minute(target_time(now))

\* if self._last_post_attempt: ... if time_since_last < 300: return
rate_limited(attempt, now) ==
    attempt # <<>> /\ now - attempt[1] < RATE_LIMIT

\* Faulty variant of record_attempt: the stamp is set only while it is None.
record_attempt_OnlyFirst(attempt, now) ==
    IF attempt = <<>> THEN <<now>> ELSE attempt

\* self._last_post_attempt = now, for a tick that passed the rate limit check
record_attempt(attempt, now) == <<now>>

(***************************************************************************)
(* daily_post, from its start to its first suspension: the guard, the      *)
(* channel and rate limit checks, the fast path or should_post, and the    *)
(* synchronous head of post_daily_message (the channel lookup).            *)
(***************************************************************************)
daily_post(now, resolvable) ==
    /\ loop_alive
    /\ ~post_lock
    /\ pc = "idle"
    /\ clock' = now
    /\ UNCHANGED <<settings_file, loop_alive, last_prompt, partial, records, call,
                   prompts, skipped, reaction_vars>>
    /\ LET e == Observe(settings, now) IN
       IF settings.channel_id = <<>>
       THEN /\ ev' = [e EXCEPT !.path = "nochannel"]
            /\ UNCHANGED <<settings, last_post_attempt, post_lock, pc, last_pass,
                   prompts, skipped, reaction_vars>>
       ELSE IF rate_limited(last_post_attempt, now)
       THEN /\ ev' = [e EXCEPT !.path = "ratelimited"]
            /\ UNCHANGED <<settings, last_post_attempt, post_lock, pc, last_pass,
                   prompts, skipped, reaction_vars>>
       ELSE
         LET fast == exact_minute(now)
             r == IF fast THEN [post |-> TRUE, settings |-> settings]
                  ELSE should_post(settings, now)
         IN
         /\ last_post_attempt' = record_attempt(last_post_attempt, now)
         /\ last_pass' = <<now>>
         /\ settings' = r.settings
         /\ IF ~r.post
            THEN /\ ev' = [e EXCEPT !.path = "nopost"]
                 /\ UNCHANGED <<post_lock, pc,
                   prompts, skipped, reaction_vars>>
            ELSE IF ~resolvable
            THEN /\ ev' = [e EXCEPT !.path = IF fast THEN "fast" ELSE "recovery",
                                    !.result = "unresolved"]
                 /\ UNCHANGED <<post_lock, pc,
                   prompts, skipped, reaction_vars>>
            ELSE /\ ev' = [e EXCEPT !.path = IF fast THEN "fast" ELSE "recovery",
                                    !.result = "pending"]
                 /\ post_lock' = TRUE
                 /\ pc' = "send"

\* A tick of the driver at any later instant (delayed ticks, downtime).
Tick ==
    \E now \in Instants, resolvable \in BOOLEAN :
        /\ now >= clock
        /\ daily_post(now, resolvable)

\* Faulty variant of daily_post_skipped: the tick records its attempt before
\* it looks at the lock.
daily_post_skipped_RecordsAttempt ==
    /\ loop_alive
    /\ post_lock
    /\ skipped' = TRUE
    /\ last_post_attempt' = <<clock + 1>>
    /\ UNCHANGED <<clock, settings, settings_file, post_lock, pc, loop_alive, ev,
                   last_prompt, last_pass, partial, records, call, prompts,
                   reaction_vars>>

\* daily_post started while an evaluation holds the lock:
\* `if self._post_lock.locked(): return`.
daily_post_skipped ==
    /\ loop_alive
    /\ post_lock
    /\ skipped' = TRUE
    /\ UNCHANGED <<clock, settings, settings_file, last_post_attempt, post_lock, pc,
                   loop_alive, ev, last_prompt, last_pass, partial, records, call,
                   prompts, reaction_vars>>

(***************************************************************************)
(* post_daily_message after the channel lookup: the awaited send, the two  *)
(* awaited add_reaction calls, then the bookkeeping.  Any exception is     *)
(* caught at line 184 and the evaluation ends, releasing the lock.         *)
(***************************************************************************)
\* message = await channel.send(...) returns: the prompt is in the channel.
send_ok ==
    \E l \in Latency :
        /\ pc = "send"
        /\ clock' = clock + l
        /\ last_prompt' = <<[at |-> ev.now, emit |-> clock + l, via |-> ev.path,
                             after |-> IF last_prompt = <<>> THEN "none"
                                       ELSE last_prompt[1].via]>>
        /\ ev' = [ev EXCEPT !.result = "emitted"]
        /\ prompts' = IF prompts = "none" THEN "one" ELSE "many"
        /\ pc' = "react1"
        /\ UNCHANGED <<settings, settings_file, last_post_attempt, post_lock,
                       loop_alive, last_pass, partial, records, call,
                   skipped, reaction_vars>>

\* Faulty variant of send_failed: the bookkeeping runs although the send failed.
send_failed_SetsTime ==
    /\ pc = "send"
    /\ ev' = [ev EXCEPT !.result = "sendfail"]
    /\ pc' = "idle"
    /\ post_lock' = FALSE
    /\ skipped' = FALSE
    /\ settings' = [settings EXCEPT !.last_post_time = isoformat(clock)]
    /\ settings_file' = save_settings(settings')
    /\ UNCHANGED <<clock, last_post_attempt, loop_alive, last_prompt, last_pass,
                   partial, records, call,
                   prompts, reaction_vars>>

\* await channel.send(...) raises: except Exception, log, return.
send_failed ==
    /\ pc = "send"
    /\ ev' = [ev EXCEPT !.result = "sendfail"]
    /\ pc' = "idle"
    /\ post_lock' = FALSE
    /\ skipped' = FALSE
    /\ UNCHANGED <<clock, settings, settings_file, last_post_attempt, loop_alive,
                   last_prompt, last_pass, partial, records, call,
                   prompts, reaction_vars>>

\* await message.add_reaction(first marker) returns.
react1_ok ==
    /\ pc = "react1"
    /\ pc' = "react2"
    /\ UNCHANGED <<clock, settings, settings_file, last_post_attempt, post_lock,
                   loop_alive, ev, last_prompt, last_pass, partial, records, call,
                   prompts, skipped, reaction_vars>>

\* Either add_reaction raises: the prompt stays, last_post_time is not set.
react_failed ==
    /\ pc \in {"react1", "react2"}
    /\ ev' = [ev EXCEPT !.result = "reactfail"]
    /\ partial' = TRUE
    /\ pc' = "idle"
    /\ post_lock' = FALSE
    /\ skipped' = FALSE
    /\ UNCHANGED <<clock, settings, settings_file, last_post_attempt, loop_alive,
                   last_prompt, last_pass, records, call,
                   prompts, reaction_vars>>

\* self.settings['last_post_time'] = datetime.datetime.now(pytz.UTC).isoformat()
bookkeeping(s, now, tick_now) == [s EXCEPT !.last_post_time = isoformat(now)]

\* await message.add_reaction(second marker) returns (the latency of both
\* reactions is taken here); then last_post_time is set and settings saved.
react2_ok ==
    \E l \in Latency :
        /\ pc = "react2"
        /\ clock' = clock + l
        /\ settings' = bookkeeping(settings, clock + l, ev.now)
        /\ settings_file' = save_settings(settings')
        /\ ev' = [ev EXCEPT !.result = "posted"]
        /\ pc' = "idle"
        /\ post_lock' = FALSE
        /\ skipped' = FALSE
        /\ UNCHANGED <<last_post_attempt, loop_alive, last_prompt, last_pass,
                       partial, records, call,
                   prompts, reaction_vars>>

(***************************************************************************)
(* Configuration commands.                                                 *)
(***************************************************************************)
set_daily_message ==
    \E message \in Messages :
        /\ settings' = [settings EXCEPT !.daily_message = message]
        /\ settings_file' = save_settings(settings')
        /\ UNCHANGED <<clock, last_post_attempt, post_lock, pc, loop_alive, ev,
                       last_prompt, last_pass, partial, records, call,
                   prompts, skipped, reaction_vars>>

set_channel ==
    /\ settings' = [settings EXCEPT !.channel_id = <<CHANNEL>>]
    /\ settings_file' = save_settings(settings')
    /\ UNCHANGED <<clock, last_post_attempt, post_lock, pc, loop_alive, ev,
                   last_prompt, last_pass, partial, records, call,
                   prompts, skipped, reaction_vars>>

(***************************************************************************)
(* The process ends (at any point) and a new one is constructed: __init__  *)
(* loads the settings file and creates a fresh lock and attempt stamp.     *)
(***************************************************************************)
Restart ==
    /\ settings' = load_settings(settings_file)
    /\ last_post_attempt' = <<>>
    /\ post_lock' = FALSE
    /\ skipped' = FALSE
    /\ pc' = "idle"
    /\ loop_alive' = TRUE
    /\ ev' = NoEvent
    /\ last_prompt' = <<>>
    /\ last_pass' = <<>>
    /\ partial' = FALSE
    /\ UNCHANGED <<clock, settings_file, records, call,
                   prompts, reaction_vars>>

(***************************************************************************)
(* Initial state: a fresh process with no settings file.                   *)
(***************************************************************************)
Init ==
    /\ clock = 0
    /\ settings_file = <<>>
    /\ settings = load_settings(<<>>)
    /\ last_post_attempt = <<>>
    /\ post_lock = FALSE
    /\ pc = "idle"
    /\ loop_alive = TRUE
    /\ ev = NoEvent
    /\ last_prompt = <<>>
    /\ last_pass = <<>>
    /\ partial = FALSE
    /\ records = {}
    /\ call = NoCall
    /\ prompts = "none"
    /\ skipped = FALSE
    /\ NoReactions

Next ==
    \/ Tick
    \/ daily_post_skipped
    \/ send_ok
    \/ send_failed
    \/ react1_ok
    \/ react_failed
    \/ react2_ok
    \/ set_daily_message
    \/ set_channel
    \/ Restart

Spec == Init /\ [][Next]_vars

(***************************************************************************)
(* Logical days and streaks.  A datetime with a time zone is its wall      *)
(* clock reading and its UTC offset; a datetime.date is a day number; the  *)
(* table holds a date as the text sqlite3 stores for it (date.isoformat(): *)
(* fixed width, zero padded), which is what ORDER BY compares.             *)
(***************************************************************************)
\* Faulty variant of get_meditation_date: the cutoff instant itself is
\* attributed to the previous day.
get_meditation_date_CutoffExcluded(timestamp) ==
    LET gmt == timestamp.wall - timestamp.utcoffset
        cutoff == target_time(gmt)
    IN IF gmt <= cutoff THEN date(gmt) - 1 ELSE date(gmt)

get_meditation_date(timestamp) ==
    LET gmt == timestamp.wall - timestamp.utcoffset      \* astimezone(pytz.UTC)
        cutoff == target_time(gmt)
    IN IF gmt < cutoff THEN date(gmt) - 1 ELSE date(gmt)

\* str of a datetime.date as sqlite3 binds it, and strptime(..., '%Y-%m-%d').
date_text(d) == <<d \div 10, d % 10>>
strptime(text) == text[1] * 10 + text[2]

\* Comparison of TEXT values: the first differing character decides.
TextLess(a, b) == a[1] < b[1] \/ (a[1] = b[1] /\ a[2] < b[2])

RECURSIVE OrderAscending(_)
OrderAscending(S) ==
    IF S = {} THEN <<>>
    ELSE LET least == CHOOSE x \in S : \A y \in S : ~TextLess(y, x)
         IN <<least>> \o OrderAscending(S \ {least})

\* Faulty variant of select_dates: DESC is missing from ORDER BY.
select_dates_Ascending(rows, user_id) ==
    OrderAscending({r[2] : r \in {x \in rows : x[1] = user_id}})

RECURSIVE OrderDescending(_)
OrderDescending(S) ==
    IF S = {} THEN <<>>
    ELSE LET greatest == CHOOSE x \in S : \A y \in S : ~TextLess(x, y)
         IN <<greatest>> \o OrderDescending(S \ {greatest})

\* SELECT meditation_date ... WHERE user_id = ? ORDER BY meditation_date DESC
select_dates(rows, user_id) ==
    OrderDescending({r[2] : r \in {x \in rows : x[1] = user_id}})

\* for date in dates[1:]: the walk from position i with the streak so far.
RECURSIVE walk(_, _, _, _)
walk(dates, i, streak, expected_date) ==
    IF i > Len(dates) THEN streak
    ELSE IF expected_date - 1 = dates[i]
    THEN walk(dates, i + 1, streak + 1, dates[i])
    ELSE streak

get_streak(rows, user_id, current_date) ==
    LET fetched == select_dates(rows, user_id)
        dates == [i \in 1..Len(fetched) |-> strptime(fetched[i])]
    IN IF dates = <<>> THEN 0 ELSE walk(dates, 2, 1, dates[1])

\* Inputs.
Users == {101, 202}
RecordDays == FirstRecordDay .. (FirstRecordDay + RecordDaySpan - 1)
CurrentDates == {FirstRecordDay, FirstRecordDay + RecordDaySpan + 30}
UtcOffsets == {-18000, 0, 3600, 19800}
StampTimes ==
    {0, CUTOFF - 1, CUTOFF, CUTOFF + 1, CUTOFF + TICK_PERIOD, 50000,
     SecondsPerDay - 1}
StampInstants == {d * SecondsPerDay + s : d \in 0..MaxStampDay, s \in StampTimes}
Timestamps ==
    {[wall |-> t + off, utcoffset |-> off] : t \in StampInstants, off \in UtcOffsets}

\* show_streak / get_all_streaks calling get_streak.
call_get_streak ==
    \E user_id \in Users, current_date \in CurrentDates :
        /\ call' = [op |-> "get_streak", user |-> user_id, arg |-> <<current_date>>,
                    result |-> get_streak(records, user_id, current_date)]
        /\ UNCHANGED <<clock, settings, settings_file, last_post_attempt, post_lock,
                       pc, loop_alive, ev, last_prompt, last_pass, partial, records,
                   prompts, skipped, reaction_vars>>

\* A caller of get_meditation_date.
call_get_meditation_date ==
    \E timestamp \in Timestamps :
        /\ call' = [op |-> "get_meditation_date", user |-> 0,
                    arg |-> <<timestamp.wall, timestamp.utcoffset>>,
                    result |-> get_meditation_date(timestamp)]
        /\ UNCHANGED <<clock, settings, settings_file, last_post_attempt, post_lock,
                       pc, loop_alive, ev, last_prompt, last_pass, partial, records,
                   prompts, skipped, reaction_vars>>

\* The table may hold any rows that check-ins on the recorded days leave.
InitStreak ==
    /\ clock = 0
    /\ settings_file = <<>>
    /\ settings = load_settings(<<>>)
    /\ last_post_attempt = <<>>
    /\ post_lock = FALSE
    /\ pc = "idle"
    /\ loop_alive = TRUE
    /\ ev = NoEvent
    /\ last_prompt = <<>>
    /\ last_pass = <<>>
    /\ partial = FALSE
    /\ records \in SUBSET (Users \X {date_text(d) : d \in RecordDays})
    /\ call = NoCall
    /\ prompts = "none"
    /\ skipped = FALSE
    /\ NoReactions

SpecStreak == InitStreak /\ [][call_get_streak]_vars

SpecDate == Init /\ [][call_get_meditation_date]_vars

(***************************************************************************)
(* The uninterrupted driver: once a channel is configured the loop ticks   *)
(* every 60 seconds from its first tick on, the channel resolves and every *)
(* send and reaction succeeds.                                             *)
(***************************************************************************)
\* Instants of day 0 at which the first tick may fall.
StartTimes == {CUTOFF - 1, CUTOFF, CUTOFF + TICK_PERIOD, 50000}
PeriodicEnd == PeriodicDays * SecondsPerDay + CUTOFF + 2 * RATE_LIMIT

PeriodicTick ==
    /\ settings.channel_id # <<>>
    /\ \E now \in IF ev.path = "none" THEN StartTimes ELSE {ev.now + TICK_PERIOD} :
          /\ now >= clock
          /\ now <= PeriodicEnd
          /\ daily_post(now, TRUE)

NextPeriodic ==
    \/ set_channel
    \/ PeriodicTick
    \/ send_ok
    \/ react1_ok
    \/ react2_ok

SpecPeriodic == Init /\ [][NextPeriodic]_vars

(***************************************************************************)
(* Properties of the scheduler.                                            *)
(***************************************************************************)
\* A step of daily_post (a tick), as opposed to a step of its post.
TickStep == pc = "idle" /\ ev'.path # "none" /\ (ev' # ev \/ clock' # clock)

\* The paths of a tick that got past the guard, channel and rate limit checks.
Passing == {"nopost", "fast", "recovery"}
\* The paths of a tick that called post_daily_message.
Posting == {"fast", "recovery"}

C3_FirstTickSetsFlag ==
    /\ (ev.state = "Uninitialized" /\ ev.path \in Passing) => ev.path \in Posting
    /\ (ev.state = "Uninitialized" /\ ev.result = "posted")
       => settings.was_first_post /\ settings.last_post_time # <<>>

\* C3 amended: the first tick evaluated in the Uninitialized state posts and
\* sets last_post_time to an instant not before its `now`; outside the 07:30
\* minute it leaves was_first_post = true, inside the 07:30 minute (the fast
\* path, which does not call should_post) it leaves was_first_post as it was.
C3_FirstTickPosts ==
    /\ (ev.state = "Uninitialized" /\ ev.path \in Passing) => ev.path \in Posting
    /\ (ev.state = "Uninitialized" /\ ev.result = "posted")
       => /\ settings.last_post_time # <<>>
          /\ fromisoformat(settings.last_post_time) >= ev.now
          /\ exact_minute(ev.now) <=> ev.path = "fast"
          /\ ev.path = "recovery" => settings.was_first_post
          /\ ev.path = "fast" => settings.was_first_post = ev.flag

\* The first post of a fresh process made in the 07:30 minute: the flag is false.
C3_Witness ==
    /\ ev.state = "Uninitialized"
    /\ ev.result = "posted"
    /\ ev.path = "fast"
    /\ ~settings.was_first_post
    /\ settings.last_post_time # <<>>

\* C4: within one process lifetime a tick gets past the rate limit check only
\* if no tick got past it less than 300 seconds earlier, and then records its
\* `now` as the attempt stamp whether or not it posts; a tick less than 300
\* seconds after such a tick returns before the fast path and should_post:
\* it starts no post and changes neither Settings nor the attempt stamp.
C4_RateLimit ==
    [][TickStep =>
        /\ ev'.path \in Passing
           => /\ last_pass = <<>> \/ ev'.now - last_pass[1] >= RATE_LIMIT
              /\ last_post_attempt' = <<ev'.now>>
        /\ (last_pass # <<>> /\ ev'.now - last_pass[1] < RATE_LIMIT)
           => /\ ev'.path \in {"nochannel", "ratelimited"}
              /\ settings' = settings
              /\ settings_file' = settings_file
              /\ last_post_attempt' = last_post_attempt
              /\ last_prompt' = last_prompt
              /\ pc' = "idle"]_vars

\* A tick inside the 07:30 minute dropped by the rate limit, one second after
\* a tick that got past it.
C4_Witness ==
    /\ ev.path = "ratelimited"
    /\ exact_minute(ev.now)
    /\ last_pass # <<>>
    /\ ev.now - last_pass[1] = 1
    /\ last_post_attempt = last_pass

\* C5: in Steady state a tick that gets past the guard, channel and rate limit
\* checks more than 24 hours after last_post_time calls post_daily_message,
\* wherever `now` lies relative to the 07:30 cutoff of its date.
C5_SteadyPostsAfterDay ==
    [][(/\ TickStep
        /\ SchedulerState(settings) = "Steady"
        /\ ev'.path \in Passing
        /\ ev'.now - fromisoformat(settings.last_post_time) > SecondsPerDay)
       => /\ ev'.path \in Posting
          /\ ev'.result = "pending" => pc' = "send"]_vars

\* A Steady tick before the cutoff of its date, more than 24 hours after the
\* last post, whose post completed.
C5_Witness ==
    /\ ev.state = "Steady"
    /\ ev.since = "over_day"
    /\ ev.now < target_time(ev.now)
    /\ ev.path = "recovery"
    /\ ev.result = "posted"

\* C6: in Steady state a tick whose `now` precedes the 07:30 cutoff of its
\* date, fewer than 23.5 hours after last_post_time, does not post and leaves
\* last_post_time and was_first_post unchanged.
C6_SteadyNoPostBeforeSpacing ==
    [][(/\ TickStep
        /\ SchedulerState(settings) = "Steady"
        /\ ev'.now < target_time(ev'.now)
        /\ ev'.now - fromisoformat(settings.last_post_time) < MinSpacing)
       => /\ ev'.path \notin Posting
          /\ pc' = "idle"
          /\ last_prompt' = last_prompt
          /\ settings'.last_post_time = settings.last_post_time
          /\ settings'.was_first_post = settings.was_first_post]_vars

\* A Steady tick past all three checks, before the cutoff and before 23.5 h.
C6_Witness ==
    /\ ev.state = "Steady"
    /\ ev.since = "below_min"
    /\ ev.now < target_time(ev.now)
    /\ ev.path = "nopost"

\* C7: a tick whose send fails or whose channel cannot be resolved leaves
\* last_post_time unchanged in memory and in the settings file, and ends with
\* the lock released and the periodic driver still running.
C7_FailedPostKeepsTime ==
    [][(ev' # ev /\ ev'.result \in {"sendfail", "unresolved"})
       => /\ settings'.last_post_time = settings.last_post_time
          /\ load_settings(settings_file').last_post_time
               = load_settings(settings_file).last_post_time
          /\ last_prompt' = last_prompt
          /\ pc' = "idle"
          /\ ~post_lock'
          /\ loop_alive']_vars

\* A Steady tick whose send failed, last_post_time still set and persisted.
C7_Witness ==
    /\ ev.result = "sendfail"
    /\ ev.state = "Steady"
    /\ settings.last_post_time # <<>>
    /\ load_settings(settings_file).last_post_time = settings.last_post_time
    /\ pc = "idle"

\* C8 as stated: after a tick that should_post made eligible and whose send
\* failed, the next tick of the same calendar date that gets past the rate
\* limit check posts again, whichever state the failed tick started in.
C8_RetryAfterFailedSend ==
    [][(/\ TickStep
        /\ ev.result = "sendfail"
        /\ ev.path = "recovery"
        /\ ev'.path \in Passing
        /\ date(ev'.now) = date(ev.now))
       => ev'.path \in Posting]_vars

\* C2 as stated: with uninterrupted 60 second ticks, a configured channel and
\* every send succeeding, every cutoff cycle that begins after the first post
\* contains a prompt: the clock never reaches the cycle after next of the
\* last emitted prompt.
C2_EveryCycleHasPrompt ==
    last_prompt # <<>> => Cycle(clock) <= Cycle(last_prompt[1].emit) + 1

(***************************************************************************)
(* Properties of the streak and of the logical day.                        *)
(***************************************************************************)
\* The days recorded for a user, and the run of consecutive days that ends
\* at the most recent of them.
DaysOf(user_id) == {strptime(r[2]) : r \in {x \in records : x[1] = user_id}}
RunEndingAtLatest(S) ==
    IF S = {} THEN 0
    ELSE LET latest == CHOOSE m \in S : \A d \in S : d <= m
         IN CHOOSE k \in 1..Cardinality(S) :
                /\ \A j \in 0..(k - 1) : latest - j \in S
                /\ latest - k \notin S

\* C9: get_streak returns 0 exactly for a user without records and otherwise
\* the length of the maximal run of consecutive logical days ending at the
\* user's most recent recorded day, for every value of current_date.
C9_StreakIsRunEndingAtLatest ==
    call.op = "get_streak"
    => /\ call.result = RunEndingAtLatest(DaysOf(call.user))
       /\ call.result = 0 <=> DaysOf(call.user) = {}
       /\ \A current_date \in CurrentDates :
              get_streak(records, call.user, current_date) = call.result

\* Records on {D, D-1, D-2, D-5} give 3, with a current_date far later and
\* another user holding other records.
C9_Witness ==
    LET D == FirstRecordDay + 5 IN
    /\ call.op = "get_streak"
    /\ DaysOf(call.user) = {D, D - 1, D - 2, D - 5}
    /\ call.arg[1] > D + 30
    /\ call.result = 3
    /\ \E other \in Users : DaysOf(other) = {D - 3, D - 4}

\* C10: for an instant t on UTC date D, get_meditation_date is D when t is at
\* or after 07:30:00 of D and D-1 when t is before it, in whatever time zone
\* t is expressed; and it never decreases as the instant increases.
C10_LogicalDay ==
    call.op = "get_meditation_date"
    => LET t == call.arg[1] - call.arg[2]
           D == date(t)
       IN /\ t >= D * SecondsPerDay + CUTOFF => call.result = D
          /\ t < D * SecondsPerDay + CUTOFF => call.result = D - 1
          /\ \A later \in Timestamps :
                later.wall - later.utcoffset >= t
                => get_meditation_date(later) >= call.result

\* The cutoff instant itself, expressed in a zone whose wall clock shows
\* another time, attributed to its own UTC date.
C10_Witness ==
    /\ call.op = "get_meditation_date"
    /\ call.arg[2] # 0
    /\ (call.arg[1] - call.arg[2]) % SecondsPerDay = CUTOFF
    /\ call.result = date(call.arg[1] - call.arg[2])

(***************************************************************************)
(* The leaderboard.                                                        *)
(***************************************************************************)
\* The leaderboard is computed over three users and LeaderDaySpan days.
LeaderDaySpan == 4
LeaderUsers == {101, 202, 303}
LeaderDays == FirstRecordDay .. (FirstRecordDay + LeaderDaySpan - 1)

\* SELECT DISTINCT user_id FROM meditation_records: each user once, in an
\* order the query does not fix.
select_distinct_users(rows) ==
    LET ids == {r[1] : r \in rows}
    IN {f \in [1..Cardinality(ids) -> ids] :
            \A i, j \in 1..Cardinality(ids) : f[i] = f[j] => i = j}

\* for user_id in user_ids: streak = get_streak(...); if streak > 0: keep it.
\* The dict holds its items in insertion order.
RECURSIVE collect_streaks(_, _, _, _)
collect_streaks(rows, user_ids, i, current_date) ==
    IF i > Len(user_ids) THEN <<>>
    ELSE LET streak == get_streak(rows, user_ids[i], current_date)
             rest == collect_streaks(rows, user_ids, i + 1, current_date)
         IN IF streak > 0 THEN <<(<<user_ids[i], streak>>)>> \o rest ELSE rest

\* Whether key a sorts strictly before key b.
sorts_before(a, b, reverse) == IF reverse THEN a > b ELSE a < b

\* One item placed into a list sorted by streak, behind every item whose key
\* does not sort behind its own: equal keys keep their order (a stable sort).
place(sorted_items, item, reverse) ==
    LET n == Len(sorted_items)
        stay == {i \in 0..n :
                    \A j \in 1..i : ~sorts_before(item[2], sorted_items[j][2], reverse)}
        k == CHOOSE i \in stay : \A m \in stay : m <= i
    IN SubSeq(sorted_items, 1, k) \o <<item>> \o SubSeq(sorted_items, k + 1, n)

\* sorted(items, key=lambda x: x[1], reverse=...)
RECURSIVE sorted_by_streak(_, _, _)
sorted_by_streak(items, n, reverse) ==
    IF n = 0 THEN <<>>
    ELSE place(sorted_by_streak(items, n - 1, reverse), items[n], reverse)

\* Faulty variant of get_all_streaks: reverse=True is missing.
get_all_streaks_NoReverse(rows, user_ids, current_date) ==
    LET streaks == collect_streaks(rows, user_ids, 1, current_date)
    IN sorted_by_streak(streaks, Len(streaks), FALSE)

\* dict(sorted(streaks.items(), key=lambda x: x[1], reverse=True)), as the
\* sequence of its items.
get_all_streaks(rows, user_ids, current_date) ==
    LET streaks == collect_streaks(rows, user_ids, 1, current_date)
    IN sorted_by_streak(streaks, Len(streaks), TRUE)

\* show_leaderboard calling get_all_streaks, once over the table as it is.
call_get_all_streaks ==
    \E current_date \in CurrentDates, user_ids \in select_distinct_users(records) :
        /\ call.op = "none"
        /\ call' = [op |-> "get_all_streaks", user |-> 0, arg |-> <<current_date>>,
                    result |-> get_all_streaks(records, user_ids, current_date)]
        /\ UNCHANGED <<clock, settings, settings_file, last_post_attempt, post_lock,
                       pc, loop_alive, ev, last_prompt, last_pass, partial, records,
                   prompts, skipped, reaction_vars>>

InitLeaderboard ==
    /\ clock = 0
    /\ settings_file = <<>>
    /\ settings = load_settings(<<>>)
    /\ last_post_attempt = <<>>
    /\ post_lock = FALSE
    /\ pc = "idle"
    /\ loop_alive = TRUE
    /\ ev = NoEvent
    /\ last_prompt = <<>>
    /\ last_pass = <<>>
    /\ partial = FALSE
    /\ records \in SUBSET (LeaderUsers \X {date_text(d) : d \in LeaderDays})
    /\ call = NoCall
    /\ prompts = "none"
    /\ skipped = FALSE
    /\ NoReactions

SpecLeaderboard == InitLeaderboard /\ [][call_get_all_streaks]_vars

\* C11: get_all_streaks lists each user once, exactly the users whose
\* get_streak is greater than 0, which are exactly the users with at least
\* one record; each with its get_streak value; in non-increasing streak order.
C11_Leaderboard ==
    call.op = "get_all_streaks"
    => LET board == call.result
           listed == {board[i][1] : i \in 1..Len(board)}
           streak == [u \in LeaderUsers |-> get_streak(records, u, call.arg[1])]
       IN /\ Len(board) = Cardinality(listed)
          /\ listed = {u \in LeaderUsers : streak[u] > 0}
          /\ listed = {r[1] : r \in records}
          /\ \A i \in 1..Len(board) : board[i][2] = streak[board[i][1]]
          /\ \A i \in 1..(Len(board) - 1) : board[i][2] >= board[i + 1][2]

\* Streaks 3, 3 and 4 for users 101, 202 and 303: a board of length 3 led by
\* the 4 of user 303, the two 3s behind it.
C11_Witness ==
    /\ call.op = "get_all_streaks"
    /\ Len(call.result) = 3
    /\ call.result[1] = <<303, 4>>
    /\ call.result[2][2] = 3
    /\ call.result[3][2] = 3
    /\ call.result[2][1] = 202

(***************************************************************************)
(* The record store: the two statements the reaction handlers execute on   *)
(* table meditation_records, whose primary key is (user_id,                *)
(* meditation_date).  A statement yields the rows it leaves and whether it *)
(* raised.                                                                 *)
(***************************************************************************)
\* The rows that hold the key (user_id, meditation_date); the date is bound
\* as its text.
rows_with_key(rows, user_id, meditation_date) ==
    {r \in rows : r[1] = user_id /\ r[2] = date_text(meditation_date)}

\* Faulty variant of insert_or_replace: a plain INSERT, which the primary key
\* rejects when the row exists.
insert_or_replace_PlainInsert(rows, user_id, meditation_date) ==
    IF rows_with_key(rows, user_id, meditation_date) # {}
    THEN [rows |-> rows, error |-> TRUE]
    ELSE [rows |-> rows \cup {<<user_id, date_text(meditation_date)>>},
          error |-> FALSE]

\* INSERT OR REPLACE INTO meditation_records (user_id, meditation_date)
\* VALUES (?, ?); commit: a row in conflict on the primary key is deleted,
\* then the new row is inserted.
insert_or_replace(rows, user_id, meditation_date) ==
    [rows |-> (rows \ rows_with_key(rows, user_id, meditation_date))
                  \cup {<<user_id, date_text(meditation_date)>>},
     error |-> FALSE]

\* DELETE FROM meditation_records WHERE user_id = ? AND meditation_date = ?;
\* commit.
delete_record(rows, user_id, meditation_date) ==
    [rows |-> rows \ rows_with_key(rows, user_id, meditation_date),
     error |-> FALSE]

\* The statements run on tables over two users and StoreDaySpan days.
StoreDaySpan == 3
StoreDays == (FirstRecordDay + 2) .. (FirstRecordDay + 1 + StoreDaySpan)

\* The statement of on_raw_reaction_add, for any user and logical day.  The
\* call history keeps whether the statement raised and whether the row was
\* there before it.
store_record ==
    \E user_id \in Users, meditation_date \in StoreDays :
        LET r == insert_or_replace(records, user_id, meditation_date) IN
        /\ records' = r.rows
        /\ call' = [op |-> "record", user |-> user_id, arg |-> <<meditation_date>>,
                    result |-> <<r.error,
                                 rows_with_key(records, user_id, meditation_date) # {}>>]
        /\ UNCHANGED <<clock, settings, settings_file, last_post_attempt, post_lock,
                       pc, loop_alive, ev, last_prompt, last_pass, partial,
                   prompts, skipped, reaction_vars>>

\* The statement of on_raw_reaction_remove, for any user and logical day.
store_remove ==
    \E user_id \in Users, meditation_date \in StoreDays :
        LET r == delete_record(records, user_id, meditation_date) IN
        /\ records' = r.rows
        /\ call' = [op |-> "remove", user |-> user_id, arg |-> <<meditation_date>>,
                    result |-> <<r.error,
                                 rows_with_key(records, user_id, meditation_date) # {}>>]
        /\ UNCHANGED <<clock, settings, settings_file, last_post_attempt, post_lock,
                       pc, loop_alive, ev, last_prompt, last_pass, partial,
                   prompts, skipped, reaction_vars>>

InitStore ==
    /\ clock = 0
    /\ settings_file = <<>>
    /\ settings = load_settings(<<>>)
    /\ last_post_attempt = <<>>
    /\ post_lock = FALSE
    /\ pc = "idle"
    /\ loop_alive = TRUE
    /\ ev = NoEvent
    /\ last_prompt = <<>>
    /\ last_pass = <<>>
    /\ partial = FALSE
    /\ records \in SUBSET (Users \X {date_text(d) : d \in StoreDays})
    /\ call = NoCall
    /\ prompts = "none"
    /\ skipped = FALSE
    /\ NoReactions

SpecStore == InitStore /\ [][store_record \/ store_remove]_vars

\* C12: the insert raises no error, leaves the row of its (user, day) in the
\* table and every other row as it was, and applied again to the table it
\* left changes nothing and raises nothing; the delete raises no error,
\* leaves no row of its (user, day) and every other row as it was, so on a
\* table without that row it changes nothing.
C12_StoreIdempotent ==
    [][LET user_id == call'.user
           day == call'.arg[1]
           key == <<user_id, date_text(day)>>
       IN /\ call'.op = "record"
             => /\ ~call'.result[1]
                /\ key \in records'
                /\ records' \ {key} = records \ {key}
                /\ insert_or_replace(records', user_id, day)
                     = [rows |-> records', error |-> FALSE]
          /\ call'.op = "remove"
             => /\ ~call'.result[1]
                /\ key \notin records'
                /\ records' \ {key} = records \ {key}
                /\ key \notin records => records' = records
                /\ delete_record(records', user_id, day)
                     = [rows |-> records', error |-> FALSE]]_vars

\* The insert applied to a table that already held the row, next to rows of
\* the same user on other days and of another user on the same day.
C12_Witness ==
    /\ call.op = "record"
    /\ call.result = <<FALSE, TRUE>>
    /\ <<call.user, date_text(call.arg[1])>> \in records
    /\ \E r \in records : r[1] = call.user /\ r[2] # date_text(call.arg[1])
    /\ \E r \in records : r[1] # call.user /\ r[2] = date_text(call.arg[1])

(***************************************************************************)
(* The reaction handlers.  One member reacts to one prompt message of the  *)
(* bot, which carries the bot's own two markers.  Every reaction added or  *)
(* removed starts a handler of its own; a handler is suspended at each     *)
(* await (fetch_message, remove_reaction, reaction.users()) and the        *)
(* handlers in flight resume in any order.                                 *)
(***************************************************************************)
\* The member adds or removes at most MaxEvents reactions.
MaxEvents == 3

\* ["🧘‍♂️", "🧘‍♀️"], in the order the bot attached them, and another emoji.
MARKERS == <<"man_in_lotus_position", "woman_in_lotus_position">>
Emojis == {MARKERS[1], MARKERS[2], "thumbsup"}
MEMBER == 101

\* The prompt was sent on day MessageDay, one second before the cutoff or at it.
MessageDay == FirstRecordDay + 3
MessageTimes == {MessageDay * SecondsPerDay + CUTOFF - 1,
                 MessageDay * SecondsPerDay + CUTOFF}
\* Ages of the message at which a handler may read the clock.
MessageAges ==
    {3600, 2 * SecondsPerDay, 2 * SecondsPerDay + 3600, 3 * SecondsPerDay - 1,
     3 * SecondsPerDay}
\* Rows of other (user, day) pairs the table may hold.
OtherRows ==
    {<<202, date_text(MessageDay - 1)>>, <<202, date_text(MessageDay)>>,
     <<MEMBER, date_text(MessageDay - 2)>>}

\* timedelta.days
days(delta) == delta \div SecondsPerDay

\* message.author != self.bot.user or message.content != daily_message
not_a_prompt(msg, s) == msg.content # s.daily_message

\* str(payload.emoji) in ["🧘‍♂️", "🧘‍♀️"]
is_marker(emoji) == emoji \in {MARKERS[1], MARKERS[2]}

\* message_age.days > 2
is_stale(message_age) == days(message_age) > 2

\* A handler that has returned is no longer in flight.
Finished(hs, i) == SubSeq(hs, 1, i - 1) \o SubSeq(hs, i + 1, Len(hs))

Handler(event, emoji) == [event |-> event, emoji |-> emoji, pc |-> "fetch"]

\* The member adds a reaction: the platform dispatches on_raw_reaction_add,
\* which runs up to `await channel.fetch_message(...)`.
reaction_added ==
    \E emoji \in Emojis :
        /\ events < MaxEvents
        /\ emoji \notin posted.reactions
        /\ posted' = [posted EXCEPT !.reactions = @ \cup {emoji}]
        /\ handlers' = Append(handlers, Handler("add", emoji))
        /\ events' = events + 1
        /\ UNCHANGED <<clock, settings, settings_file, last_post_attempt, post_lock,
                       pc, loop_alive, ev, last_prompt, last_pass, partial, records,
                       call, prompts, skipped>>

\* The member removes a reaction: on_raw_reaction_remove runs up to its fetch.
reaction_removed ==
    \E emoji \in Emojis :
        /\ events < MaxEvents
        /\ emoji \in posted.reactions
        /\ posted' = [posted EXCEPT !.reactions = @ \ {emoji}]
        /\ handlers' = Append(handlers, Handler("remove", emoji))
        /\ events' = events + 1
        /\ UNCHANGED <<clock, settings, settings_file, last_post_attempt, post_lock,
                       pc, loop_alive, ev, last_prompt, last_pass, partial, records,
                       call, prompts, skipped>>

\* on_raw_reaction_add from the return of fetch_message: the two checks, the
\* age of the message, then either `await message.remove_reaction(...)` or
\* the insert.
on_raw_reaction_add(i) ==
    /\ handlers[i].event = "add"
    /\ handlers[i].pc = "fetch"
    /\ UNCHANGED <<settings, settings_file, last_post_attempt, post_lock, pc,
                   loop_alive, ev, last_prompt, last_pass, partial, prompts, skipped,
                   posted, events>>
    /\ IF not_a_prompt(posted, settings) \/ ~is_marker(handlers[i].emoji)
       THEN /\ handlers' = Finished(handlers, i)
            /\ UNCHANGED <<clock, records, call>>
       ELSE \E now \in {posted.created_at + a : a \in MessageAges} :
            /\ now >= clock
            /\ clock' = now
            /\ LET message_age == now - posted.created_at
                   meditation_date ==
                       get_meditation_date([wall |-> posted.created_at, utcoffset |-> 0])
               IN IF is_stale(message_age)
                  THEN /\ handlers' = [handlers EXCEPT ![i].pc = "remove_reaction"]
                       /\ call' = [op |-> "stale", user |-> MEMBER,
                                   arg |-> <<message_age>>, result |-> meditation_date]
                       /\ UNCHANGED records
                  ELSE /\ handlers' = Finished(handlers, i)
                       /\ records' = insert_or_replace(records, MEMBER, meditation_date).rows
                       /\ call' = [op |-> "checkin", user |-> MEMBER,
                                   arg |-> <<message_age>>, result |-> meditation_date]

\* `await message.remove_reaction(payload.emoji, payload.member)` returns: the
\* platform has taken the reaction off and, if the member still held it,
\* dispatches on_raw_reaction_remove for it.
remove_reaction_done(i) ==
    /\ handlers[i].event = "add"
    /\ handlers[i].pc = "remove_reaction"
    /\ posted' = [posted EXCEPT !.reactions = @ \ {handlers[i].emoji}]
    /\ handlers' = IF handlers[i].emoji \in posted.reactions
                   THEN Append(Finished(handlers, i), Handler("remove", handlers[i].emoji))
                   ELSE Finished(handlers, i)
    /\ UNCHANGED <<clock, settings, settings_file, last_post_attempt, post_lock,
                   pc, loop_alive, ev, last_prompt, last_pass, partial, records,
                   call, prompts, skipped, events>>

\* on_raw_reaction_remove from the return of fetch_message: the two checks;
\* then it is suspended in reaction.users() of the first marker.
on_raw_reaction_remove(i) ==
    /\ handlers[i].event = "remove"
    /\ handlers[i].pc = "fetch"
    /\ handlers' = IF not_a_prompt(posted, settings) \/ ~is_marker(handlers[i].emoji)
                   THEN Finished(handlers, i)
                   ELSE [handlers EXCEPT ![i].pc = "users1"]
    /\ UNCHANGED <<clock, settings, settings_file, last_post_attempt, post_lock,
                   pc, loop_alive, ev, last_prompt, last_pass, partial, records,
                   call, prompts, skipped, posted, events>>

\* reaction.users() of a marker yields the users who hold it now: the handler
\* returns if the member is among them, goes on to the second marker, or,
\* after the second, deletes the record.
reaction_users(i) ==
    /\ handlers[i].event = "remove"
    /\ handlers[i].pc \in {"users1", "users2"}
    /\ UNCHANGED <<clock, settings, settings_file, last_post_attempt, post_lock,
                   pc, loop_alive, ev, last_prompt, last_pass, partial, prompts,
                   skipped, posted, events>>
    /\ LET marker == IF handlers[i].pc = "users1" THEN MARKERS[1] ELSE MARKERS[2]
           meditation_date ==
               get_meditation_date([wall |-> posted.created_at, utcoffset |-> 0])
       IN IF marker \in posted.reactions
          THEN /\ handlers' = Finished(handlers, i)
               /\ UNCHANGED <<records, call>>
          ELSE IF handlers[i].pc = "users1"
          THEN /\ handlers' = [handlers EXCEPT ![i].pc = "users2"]
               /\ UNCHANGED <<records, call>>
          ELSE /\ handlers' = Finished(handlers, i)
               /\ records' = delete_record(records, MEMBER, meditation_date).rows
               /\ call' = [op |-> "retract", user |-> MEMBER,
                           arg |-> <<clock - posted.created_at>>,
                           result |-> meditation_date]

\* A prompt is on the platform, the member holds no reaction on it and has no
\* record for its logical day.
InitReactions ==
    /\ clock = 0
    /\ settings_file = <<>>
    /\ settings = load_settings(<<>>)
    /\ last_post_attempt = <<>>
    /\ post_lock = FALSE
    /\ pc = "idle"
    /\ loop_alive = TRUE
    /\ ev = NoEvent
    /\ last_prompt = <<>>
    /\ last_pass = <<>>
    /\ partial = FALSE
    /\ records \in SUBSET OtherRows
    /\ call = NoCall
    /\ prompts = "none"
    /\ skipped = FALSE
    /\ posted \in {[created_at |-> t, content |-> settings.daily_message,
                    reactions |-> {}] : t \in MessageTimes}
    /\ handlers = <<>>
    /\ events = 0

NextReactions ==
    \/ reaction_added
    \/ reaction_removed
    \/ \E i \in 1..Len(handlers) : on_raw_reaction_add(i)
    \/ \E i \in 1..Len(handlers) : remove_reaction_done(i)
    \/ \E i \in 1..Len(handlers) : on_raw_reaction_remove(i)
    \/ \E i \in 1..Len(handlers) : reaction_users(i)

SpecReactions == InitReactions /\ [][NextReactions]_vars

\* C13 as stated: the insert of on_raw_reaction_add runs only for a message
\* no older than 2 days at the time of the event, and an event on a message
\* no older than 2 days is not rejected as stale.
C13_OlderThanTwoDaysRejected ==
    /\ call.op = "checkin" => call.arg[1] <= 2 * SecondsPerDay
    /\ call.op = "stale" => call.arg[1] > 2 * SecondsPerDay

(***************************************************************************)
(* Properties of the Settings the scheduler keeps.                         *)
(***************************************************************************)
\* C14 as stated: whenever no evaluation is in progress, was_first_post =
\* true implies that exactly one prompt has been emitted since the fresh
\* start; after a second prompt was_first_post is false.
C14_FlagOnlyAfterOnePost ==
    (pc = "idle" /\ settings.was_first_post) => prompts = "one"

\* C15 as stated: neither the Settings in memory between evaluations nor the
\* Settings a restart would load have was_first_post = true together with
\* last_post_time absent.
C15_NoFlagWithoutTime ==
    /\ pc = "idle"
       => ~(settings.was_first_post /\ settings.last_post_time = <<>>)
    /\ ~(/\ load_settings(settings_file).was_first_post
         /\ load_settings(settings_file).last_post_time = <<>>)

\* C16 as stated: whenever no evaluation is in progress the Settings a
\* restart would load equal the Settings in memory.
C16_PersistedEqualsMemory ==
    pc = "idle" => load_settings(settings_file) = settings

\* C17: in Posted-First state a tick outside the 07:30 minute that gets past
\* the guard, channel and rate limit checks calls post_daily_message if and
\* only if its `now` is at or after the 07:30 cutoff of its date and
\* last_post_time is before that cutoff, whatever time has passed since
\* last_post_time; it sets was_first_post to false if it does and leaves it
\* true if it does not, and it leaves last_post_time as it was.
C17_PostedFirstRule ==
    [][(/\ TickStep
        /\ SchedulerState(settings) = "PostedFirst"
        /\ ev'.path \in Passing
        /\ ~exact_minute(ev'.now))
       => LET now == ev'.now
              target == date(now) * SecondsPerDay + CUTOFF
              last_post == fromisoformat(settings.last_post_time)
          IN /\ ev'.path = "recovery" <=> (now >= target /\ last_post < target)
             /\ settings'.was_first_post <=> ev'.path # "recovery"
             /\ settings'.last_post_time = settings.last_post_time
             /\ ev'.result = "pending" <=> pc' = "send"]_vars

\* A Posted-First tick that posted five minutes after the first post (made
\* one second before the cutoff) and left the flag false.
C17_Witness ==
    /\ ev.state = "PostedFirst"
    /\ ev.path = "recovery"
    /\ ev.since = "below_min"
    /\ ev.result = "posted"
    /\ ~settings.was_first_post
    /\ pc = "idle"

\* C18 as stated: once the evaluation that emitted a prompt has ended,
\* however the steps after the send went, last_post_time is set to an
\* instant not before the tick's `now`, in memory and in the settings file.
C18_EmittedPromptIsBooked ==
    (pc = "idle" /\ ev.result \in {"posted", "reactfail"})
    => /\ settings.last_post_time # <<>>
       /\ fromisoformat(settings.last_post_time) >= ev.now
       /\ load_settings(settings_file).last_post_time = settings.last_post_time

\* C19: the lock is held exactly while an evaluation is suspended in its
\* post; a tick that starts while the lock is held changes nothing (no post,
\* Settings, settings file and attempt stamp as they were, the evaluation in
\* progress undisturbed); a tick is evaluated only with the lock free, and
\* the lock is free again after a tick that returned early or did not post
\* and after a post that failed or completed.
C19_GuardedEvaluation ==
    [][/\ post_lock' <=> pc' # "idle"
       /\ (skipped' /\ ~skipped)
          => /\ post_lock
             /\ settings' = settings
             /\ settings_file' = settings_file
             /\ last_post_attempt' = last_post_attempt
             /\ last_prompt' = last_prompt
             /\ prompts' = prompts
             /\ ev' = ev
             /\ pc' = pc
             /\ post_lock' = post_lock
       /\ TickStep
          => /\ ~post_lock
             /\ ev'.result # "pending" => ~post_lock'
       /\ (ev' # ev /\ ev'.result \in {"sendfail", "reactfail", "posted"})
          => ~post_lock']_vars

\* A tick was dropped while the evaluation holding the lock was suspended
\* between the send and the first reaction.
C19_Witness ==
    /\ skipped
    /\ post_lock
    /\ pc = "react1"
    /\ ev.result = "emitted"

\* C20 as stated: once every handler has returned, all of them having run
\* while the message was no older than 2 days, the member has a record for
\* the logical day of the message if and only if the member still holds at
\* least one of the two markers on it.
C20_RecordIffMarkerHeld ==
    (/\ handlers = <<>>
     /\ clock <= posted.created_at + 2 * SecondsPerDay)
    => LET meditation_date ==
               get_meditation_date([wall |-> posted.created_at, utcoffset |-> 0])
       IN <<MEMBER, date_text(meditation_date)>> \in records
          <=> \E emoji \in posted.reactions : is_marker(emoji)
====
